---- MODULE Spec2Model ----
(***************************************************************************)
(* Model of multi_tool_agent/agent.py: the two tools get_weather and       *)
(* get_calendar_info that the student_assistant agent exposes.             *)
(*                                                                         *)
(* A Python str on which the code computes (lower(), `in`, ==, <, sorting) *)
(* is a sequence of one-character strings.  Text that is only copied into  *)
(* an f-string is a TLA+ string, and an f-string's value is the sequence   *)
(* of its literal pieces and interpolated values, in order.                *)
(***************************************************************************)
EXTENDS Integers, Sequences, FiniteSets, TLC

VARIABLES
    WEATHER_API_KEY,       \* module global read from the environment at import
    MOCK_CALENDAR_EVENTS,  \* module global: the static event list
    pc,                    \* "called": a tool call is pending; "returned": it has returned
    call,                  \* the pending or last tool call: tool, argument, environment
    result,                \* the mapping returned by the last tool call
    httpRequests,          \* number of requests.get calls issued so far
    log                    \* the tools that have returned, oldest first

vars == <<WEATHER_API_KEY, MOCK_CALENDAR_EVENTS, pc, call, result, httpRequests, log>>

(***************************************************************************)
(* Bounds                                                                  *)
(***************************************************************************)
\* A query is at most MaxPhrases phrases joined by single spaces.
MaxPhrases == 2

\* The orchestrator issues at most MaxCalls tool calls in a session.
MaxCalls == 3

(***************************************************************************)
(* Python str operations                                                   *)
(***************************************************************************)
\* The printable ASCII characters in code-point order, from 32 to 126 (code
\* point 96, the grave accent, is written by name).
Ascii ==
    <<" ", "!", "\"", "#", "$", "%", "&", "'", "(", ")", "*", "+", ",", "-", ".", "/",
      "0", "1", "2", "3", "4", "5", "6", "7", "8", "9", ":", ";", "<", "=", ">", "?",
      "@", "A", "B", "C", "D", "E", "F", "G", "H", "I", "J", "K", "L", "M", "N", "O",
      "P", "Q", "R", "S", "T", "U", "V", "W", "X", "Y", "Z", "[", "\\", "]", "^", "_",
      "grave", "a", "b", "c", "d", "e", "f", "g", "h", "i", "j", "k", "l", "m", "n", "o",
      "p", "q", "r", "s", "t", "u", "v", "w", "x", "y", "z", "{", "|", "}", "~">>

Chars == {Ascii[i] : i \in 1..Len(Ascii)}

\* ord(c)
Ord == [c \in Chars |-> 31 + (CHOOSE i \in 1..Len(Ascii) : Ascii[i] = c)]

\* chr(n)
Chr(n) == Ascii[n - 31]

\* str.lower() on one character: "A".."Z" move to "a".."z", the rest stay.
LowerChar == [c \in Chars |-> IF Ord[c] \in Ord["A"]..Ord["Z"]
                              THEN Chr(Ord[c] - Ord["A"] + Ord["a"])
                              ELSE c]

\* s.lower()
str_lower(s) == [i \in 1..Len(s) |-> LowerChar[s[i]]]

\* sub in s  (substring test; the empty string is in every string)
str_in(sub, s) ==
    \E i \in 0..(Len(s) - Len(sub)) : \A k \in 1..Len(sub) : s[i + k] = sub[k]

\* a < b  (lexicographic by code point; a proper prefix is smaller)
str_lt(a, b) ==
    \E i \in 1..Len(b) :
        /\ i <= Len(a) + 1
        /\ \A k \in 1..(i - 1) : a[k] = b[k]
        /\ (i = Len(a) + 1 \/ Ord[a[i]] < Ord[b[i]])

\* a > b
str_gt(a, b) == str_lt(b, a)

(***************************************************************************)
(* The static calendar                                                     *)
(***************************************************************************)
Event1 ==
    [title |-> <<"D", "e", "e", "p", " ", "L", "e", "a", "r", "n", "i", "n", "g", " ",
                 "L", "e", "c", "t", "u", "r", "e">>,
     start_time |-> <<"0", "8", ":", "5", "0">>,
     end_time |-> <<"1", "0", ":", "2", "0">>,
     day |-> <<"M", "o", "n", "d", "a", "y">>,
     location |-> "Room 101",
     instructor |-> "Dr. Smith"]

Event2 ==
    [title |-> <<"A", "g", "e", "n", "t", "i", "c", " ", "A", "I", " ", "L", "e", "c",
                 "t", "u", "r", "e">>,
     start_time |-> <<"1", "5", ":", "0", "0">>,
     end_time |-> <<"1", "6", ":", "3", "0">>,
     day |-> <<"M", "o", "n", "d", "a", "y">>,
     location |-> "Room 203",
     instructor |-> "Prof. Johnson"]

Event3 ==
    [title |-> <<"M", "a", "c", "h", "i", "n", "e", " ", "L", "e", "a", "r", "n", "i",
                 "n", "g", " ", "L", "a", "b">>,
     start_time |-> <<"1", "3", ":", "0", "0">>,
     end_time |-> <<"1", "5", ":", "0", "0">>,
     day |-> <<"W", "e", "d", "n", "e", "s", "d", "a", "y">>,
     location |-> "Lab 3",
     instructor |-> "Dr. Brown"]

Event4 ==
    [title |-> <<"N", "a", "t", "u", "r", "a", "l", " ", "L", "a", "n", "g", "u", "a",
                 "g", "e", " ", "P", "r", "o", "c", "e", "s", "s", "i", "n", "g">>,
     start_time |-> <<"1", "1", ":", "0", "0">>,
     end_time |-> <<"1", "2", ":", "3", "0">>,
     day |-> <<"F", "r", "i", "d", "a", "y">>,
     location |-> "Room 105",
     instructor |-> "Prof. Davis"]

Event5 ==
    [title |-> <<"A", "g", "e", "n", "t", "i", "c", " ", "A", "I", " ", "P", "r", "o",
                 "j", "e", "c", "t", " ", "R", "e", "p", "o", "r", "t", " ", "S", "u",
                 "b", "m", "i", "s", "s", "i", "o", "n">>,
     start_time |-> <<"1", "0", ":", "0", "0">>,
     end_time |-> <<"1", "1", ":", "0", "0">>,
     day |-> <<"S", "a", "t", "u", "r", "d", "a", "y">>,
     location |-> "Online",
     instructor |-> "Prof. Johnson"]

Event6 ==
    [title |-> <<"D", "e", "e", "p", " ", "L", "e", "a", "r", "n", "i", "n", "g", " ",
                 "A", "s", "s", "i", "g", "n", "m", "e", "n", "t", " ", "R", "e", "v",
                 "i", "e", "w">>,
     start_time |-> <<"1", "4", ":", "0", "0">>,
     end_time |-> <<"1", "5", ":", "3", "0">>,
     day |-> <<"S", "a", "t", "u", "r", "d", "a", "y">>,
     location |-> "Virtual Classroom",
     instructor |-> "Dr. Smith"]

Event7 ==
    [title |-> <<"R", "e", "s", "e", "a", "r", "c", "h", " ", "P", "a", "p", "e", "r",
                 " ", "D", "i", "s", "c", "u", "s", "s", "i", "o", "n">>,
     start_time |-> <<"1", "6", ":", "0", "0">>,
     end_time |-> <<"1", "7", ":", "3", "0">>,
     day |-> <<"S", "a", "t", "u", "r", "d", "a", "y">>,
     location |-> "Library Study Room",
     instructor |-> "Dr. Brown"]

\* The list literal assigned to MOCK_CALENDAR_EVENTS at import.
MockCalendarLiteral == <<Event1, Event2, Event3, Event4, Event5, Event6, Event7>>

(***************************************************************************)
(* The wall clock: datetime.datetime.now() and its two strftime formats    *)
(***************************************************************************)
\* %A under the C locale; index 1 is datetime.weekday() = 0.
WeekdayNames ==
    <<<<"M", "o", "n", "d", "a", "y">>,
      <<"T", "u", "e", "s", "d", "a", "y">>,
      <<"W", "e", "d", "n", "e", "s", "d", "a", "y">>,
      <<"T", "h", "u", "r", "s", "d", "a", "y">>,
      <<"F", "r", "i", "d", "a", "y">>,
      <<"S", "a", "t", "u", "r", "d", "a", "y">>,
      <<"S", "u", "n", "d", "a", "y">>>>

\* The clock values a call may read: every weekday, at hours and minutes on
\* both sides of (and equal to) the start times the "next" rule compares with.
ClockHours == {0, 8, 10, 11, 15, 23}
ClockMinutes == {0, 50}
Clock == [weekday : 0..(Len(WeekdayNames) - 1), hour : ClockHours, minute : ClockMinutes]

\* One decimal digit as a character.
Digit(n) == Chr(Ord["0"] + n)

\* now.strftime("%A")
strftime_A(now) == WeekdayNames[now.weekday + 1]

\* now.strftime("%H:%M"): two zero-padded digits, a colon, two zero-padded digits
strftime_HM(now) ==
    <<Digit(now.hour \div 10), Digit(now.hour % 10), ":",
      Digit(now.minute \div 10), Digit(now.minute % 10)>>

(***************************************************************************)
(* get_calendar_info                                                       *)
(***************************************************************************)
\* The argument the orchestrator passes as query: a str, or (the annotation
\* is not enforced) a value without a lower() method such as None.
PyStr(s) == [type |-> "str", value |-> s]
PyNone == [type |-> "NoneType"]

\* The response dict as initialised before the rules run.
initial_response == [status |-> "success", events |-> <<>>, message |-> <<>>]

\* Rule 1 guard: "today" in query or current_day.lower() in query
mentions_today(query, current_day) ==
    \/ str_in(<<"t", "o", "d", "a", "y">>, query)
    \/ str_in(str_lower(current_day), query)

\* Rule 2 guard: "next" in query
mentions_next(query) == str_in(<<"n", "e", "x", "t">>, query)

TodayEventsCaseSensitive(events, current_day) ==
    SelectSeq(events, LAMBDA event : str_lower(event.day) = current_day)

\* [event for event in MOCK_CALENDAR_EVENTS
\*  if event["day"].lower() == current_day.lower()]
today_events(events, current_day) ==
    SelectSeq(events, LAMBDA event : str_lower(event.day) = str_lower(current_day))

\* The sort key (x["day"], x["start_time"]) compared as Python compares tuples.
key_lt(x, y) ==
    \/ str_lt(x.day, y.day)
    \/ x.day = y.day /\ str_lt(x.start_time, y.start_time)

\* One step of a stable insertion: event goes after every element not above it.
RECURSIVE insort(_, _)
insort(event, s) ==
    IF s = <<>> THEN <<event>>
    ELSE IF key_lt(event, Head(s)) THEN <<event>> \o s
    ELSE <<Head(s)>> \o insort(event, Tail(s))

\* sorted(events, key=lambda x: (x["day"], x["start_time"])): a new, stably
\* sorted list.
RECURSIVE sorted(_)
sorted(events) ==
    IF events = <<>> THEN <<>>
    ELSE insort(events[Len(events)], sorted(SubSeq(events, 1, Len(events) - 1)))

CalendarAfterInPlaceSort(events, query, current_day) ==
    IF ~mentions_today(query, current_day) /\ mentions_next(query)
    THEN sorted(events)
    ELSE events

\* What a get_calendar_info call leaves in MOCK_CALENDAR_EVENTS: the call only
\* reads the list (sorted() copies it), so the list is as it was.
calendar_after_query(events, query, current_day) == events

UpcomingTodayOnly(event, current_day, current_time) ==
    event.day = current_day /\ str_gt(event.start_time, current_time)

\* The loop condition of the "next" rule.
is_upcoming(event, current_day, current_time) ==
    \/ event.day = current_day /\ str_gt(event.start_time, current_time)
    \/ event.day # current_day

AllUpcomingEvents(all_events, current_day, current_time) ==
    SelectSeq(all_events, LAMBDA event : is_upcoming(event, current_day, current_time))

\* The for loop with break: [next_event] for the first event of all_events
\* that satisfies the condition, and no event when none does.
next_events(all_events, current_day, current_time) ==
    LET hits == {i \in 1..Len(all_events) :
                    is_upcoming(all_events[i], current_day, current_time)}
    IN  IF hits = {} THEN <<>>
        ELSE <<all_events[CHOOSE i \in hits : \A j \in hits : i <= j]>>

TitleHitsCaseSensitive(events, query) ==
    {i \in 1..Len(events) : str_in(events[i].title, query)}

\* The indices of the events whose title.lower() is in query.
title_hits(events, query) ==
    {i \in 1..Len(events) : str_in(str_lower(events[i].title), query)}

\* Rule 3: the first event, in list order, whose lower-cased title is in query.
first_title_match(events, query) ==
    LET hits == title_hits(events, query)
    IN  events[CHOOSE i \in hits : \A j \in hits : i <= j]

FallbackSortedEvents(events) == sorted(events)

\* Rule 4: response["events"] = MOCK_CALENDAR_EVENTS
fallback_events(events) == events

\* f"{title} ({day}, {start_time}-{end_time}) at {location} with {instructor}"
format_event(event) ==
    <<event.title, " (", event.day, ", ", event.start_time, "-", event.end_time,
      ") at ", event.location, " with ", event.instructor>>

\* The rules of get_calendar_info on the lower-cased query.
dispatch(query, current_day, current_time, events) ==
    IF mentions_today(query, current_day)
    THEN LET found == today_events(events, current_day)
         IN  IF found # <<>>
             THEN [initial_response EXCEPT
                     !.events = found,
                     !.message = <<"Here are your events for ", current_day, ":">>]
             ELSE [initial_response EXCEPT
                     !.message = <<"You have no events scheduled for ", current_day, ".">>]
    ELSE IF mentions_next(query)
    THEN LET found == next_events(sorted(events), current_day, current_time)
         IN  IF found # <<>>
             THEN [initial_response EXCEPT
                     !.events = found,
                     !.message = <<"Your next event is:">>]
             ELSE [initial_response EXCEPT
                     !.message = <<"You have no upcoming events.">>]
    ELSE IF title_hits(events, query) # {}
    THEN LET event == first_title_match(events, query)
         IN  [initial_response EXCEPT
                !.events = <<event>>,
                !.message = <<"Here's the information about ", event.title, ":">>]
    ELSE [initial_response EXCEPT
            !.events = fallback_events(events),
            !.message = <<"Here are all your scheduled events:">>]

\* The formatting step: formatted_events is added only when events is non-empty.
with_formatted_events(response) ==
    IF response.events # <<>>
    THEN response @@
         [formatted_events |->
            [i \in 1..Len(response.events) |-> format_event(response.events[i])]]
    ELSE response

\* get_calendar_info(query) when datetime.now() reads `now` and the static list
\* holds `events`.  query.lower() raises AttributeError on a non-str, which
\* the except clause turns into the error mapping.
get_calendar_info(query, now, events) ==
    IF query.type # "str"
    THEN [status |-> "error",
          error_message |-> <<"Error retrieving calendar information: ",
                              "AttributeError">>]
    ELSE with_formatted_events(
             dispatch(str_lower(query.value), strftime_A(now), strftime_HM(now), events))

(***************************************************************************)
(* get_weather                                                             *)
(***************************************************************************)
\* JSON values as response.json() returns them.  An object is a dict (a
\* function from its keys to values); the other values have no get().
JNull == [json |-> "null"]
JNumber(n) == [json |-> "number", value |-> n]
JString(s) == [json |-> "string", value |-> s]
JArray == [json |-> "array"]
JObject(members) == [json |-> "object", members |-> members]

\* The dict with the given (key, value) pairs.
Members(pairs) == [k \in {p[1] : p \in pairs} |-> (CHOOSE p \in pairs : p[1] = k)[2]]

\* The {} used as the default of data.get and current.get.
EmptyDict == JObject(Members({}))

\* Whether v.get(...) can be called: only a dict has get().
has_get(v) == v.json = "object"

\* d.get(key, default)
dict_get(d, key, default) ==
    IF key \in DOMAIN d.members THEN d.members[key] ELSE default

\* A value interpolated into an f-string: str(value).
py_format(v) ==
    CASE v.json = "string" -> v.value
      [] v.json = "number" -> ToString(v.value)
      [] v.json = "null" -> "None"

\* not WEATHER_API_KEY is false: the key is a non-empty str.
key_configured_if_not_none(key) == key.type # "NoneType"

key_configured(key) == key.type = "str" /\ key.value # <<>>

MissingKeyResultWithoutMessage == [status |-> "error"]

\* The mapping returned when the key is not configured.
missing_key_result ==
    [status |-> "error",
     error_message |-> <<"Weather API key not configured. Please check your .env file.">>]

\* The mapping returned by the except RequestException clause.
request_error_result(exception) ==
    [status |-> "error",
     error_message |-> <<"Error retrieving weather information: ", exception>>]

\* The mapping returned by the except Exception clause.
unexpected_error_result(exception) ==
    [status |-> "error",
     error_message |-> <<"Unexpected error retrieving weather information: ", exception>>]

WeatherReportFahrenheitFromCelsius(city, location, current, condition) ==
    <<"The weather in ", py_format(dict_get(location, "name", JString(city))),
      " is ", py_format(dict_get(condition, "text", JString("unknown"))),
      " with a temperature of ", py_format(dict_get(current, "temp_c", JString("unknown"))),
      " degrees Celsius (", py_format(dict_get(current, "temp_c", JString("unknown"))),
      " degrees Fahrenheit). Humidity is ",
      py_format(dict_get(current, "humidity", JString("unknown"))),
      "% and wind speed is ", py_format(dict_get(current, "wind_kph", JString("unknown"))),
      " km/h.">>

\* The report f-string: its literal pieces and its six interpolated values.
weather_report(city, location, current, condition) ==
    <<"The weather in ", py_format(dict_get(location, "name", JString(city))),
      " is ", py_format(dict_get(condition, "text", JString("unknown"))),
      " with a temperature of ", py_format(dict_get(current, "temp_c", JString("unknown"))),
      " degrees Celsius (", py_format(dict_get(current, "temp_f", JString("unknown"))),
      " degrees Fahrenheit). Humidity is ",
      py_format(dict_get(current, "humidity", JString("unknown"))),
      "% and wind speed is ", py_format(dict_get(current, "wind_kph", JString("unknown"))),
      " km/h.">>

\* The exceptions of requests.exceptions.RequestException that the request,
\* raise_for_status() and (requests >= 2.27) response.json() raise.
RequestExceptions == {"ConnectionError", "HTTPError", "JSONDecodeError"}

\* The try block of get_weather once the key check has passed, for the
\* outcome `http` of the request: an exception raised by requests.get,
\* raise_for_status or response.json, or the decoded JSON.  A get() on a value
\* that is no dict raises AttributeError.
weather_request_result(city, http) ==
    IF http.kind = "raises"
    THEN IF http.exception \in RequestExceptions
         THEN request_error_result(http.exception)
         ELSE unexpected_error_result(http.exception)
    ELSE LET data == http.data
         IN  IF ~has_get(data) THEN unexpected_error_result("AttributeError")
             ELSE LET location == dict_get(data, "location", EmptyDict)
                      current == dict_get(data, "current", EmptyDict)
                  IN  IF ~has_get(current) THEN unexpected_error_result("AttributeError")
                      ELSE LET condition == dict_get(current, "condition", EmptyDict)
                           IN  IF ~has_get(location) \/ ~has_get(condition)
                               THEN unexpected_error_result("AttributeError")
                               ELSE [status |-> "success",
                                     report |-> weather_report(city, location, current,
                                                               condition),
                                     data |-> data]

(***************************************************************************)
(* The inputs: tool arguments, the credential and the HTTP outcomes        *)
(***************************************************************************)
\* os.getenv("WEATHER_API_KEY"): unset, set to the empty string, or set.
Credentials == {PyNone, PyStr(<<>>), PyStr(<<"k", "e", "y">>)}

\* The phrases queries are built from: filler, the two keywords, weekday
\* names and event titles, in several capitalisations.
Phrases ==
    {<<"W", "h", "a", "t", "'", "s">>,
     <<"T", "o", "d", "a", "y">>,
     <<"n", "e", "x", "t">>,
     <<"S", "a", "t", "u", "r", "d", "a", "y">>,
     <<"m", "o", "n", "d", "a", "y">>,
     <<"d", "e", "e", "p", " ", "l", "e", "a", "r", "n", "i", "n", "g", " ", "l", "e",
       "c", "t", "u", "r", "e">>,
     <<"R", "e", "s", "e", "a", "r", "c", "h", " ", "P", "a", "p", "e", "r", " ", "D",
       "i", "s", "c", "u", "s", "s", "i", "o", "n">>}

\* The lists of at most n phrases.
RECURSIVE PhraseLists(_)
PhraseLists(n) ==
    IF n = 0 THEN {<<>>}
    ELSE LET shorter == PhraseLists(n - 1)
         IN  shorter \cup {Append(l, p) : l \in shorter, p \in Phrases}

\* " ".join(l)
RECURSIVE Join(_)
Join(l) ==
    IF l = <<>> THEN <<>>
    ELSE IF Len(l) = 1 THEN l[1]
    ELSE Join(SubSeq(l, 1, Len(l) - 1)) \o <<" ">> \o l[Len(l)]

\* The query arguments: every str of at most MaxPhrases phrases, and None.
Queries == {PyStr(Join(l)) : l \in PhraseLists(MaxPhrases)} \cup {PyNone}

Cities == {"london", "Atlantis"}

\* The members a provider response may carry in "current": any subset of the
\* three numeric readings, humidity as a number, as null or absent, and
\* condition as an object with or without text, as null or absent.
CurrentObjects ==
    {JObject(Members(readings \cup humidity \cup condition)) :
        readings \in SUBSET {<<"temp_c", JNumber(21)>>, <<"temp_f", JNumber(70)>>,
                             <<"wind_kph", JNumber(12)>>},
        humidity \in {{}, {<<"humidity", JNumber(40)>>}, {<<"humidity", JNull>>}},
        condition \in {{}, {<<"condition", EmptyDict>>}, {<<"condition", JNull>>},
                       {<<"condition", JObject(Members({<<"text", JString("Sunny")>>}))>>}}}

\* The decoded response bodies: an array, or an object whose "location" and
\* "current" are each absent, null or an object.
ResponseBodies ==
    {JArray} \cup
    {JObject(Members(location \cup current)) :
        location \in {{}, {<<"location", EmptyDict>>}, {<<"location", JNull>>},
                      {<<"location", JObject(Members({<<"name", JString("London")>>}))>>}},
        current \in {{}} \cup {{<<"current", c>>} : c \in CurrentObjects \cup {JNull}}}

\* What the request to the provider does: one of the calls in the try block
\* raises, or response.json() returns a body.  ValueError is what
\* response.json() raises on an invalid body with requests < 2.27.
HttpOutcomes ==
    {[kind |-> "raises", exception |-> e] : e \in RequestExceptions \cup {"ValueError"}}
    \cup {[kind |-> "json", data |-> d] : d \in ResponseBodies}

WeatherCalls == [tool : {"get_weather"}, city : Cities, http : HttpOutcomes]

CalendarCalls == [tool : {"get_calendar_info"}, query : Queries, now : Clock]

\* Any call of the input space.
ToolCalls == WeatherCalls \cup CalendarCalls

\* The calls the orchestrator goes on with after the first one: each rule of
\* get_calendar_info and its error, and an error, a success and a malformed
\* body of get_weather.
FollowUpCalls ==
    [tool : {"get_calendar_info"},
     query : {PyNone, PyStr(<<"n", "e", "x", "t">>), PyStr(<<"T", "o", "d", "a", "y">>),
              PyStr(<<"W", "h", "a", "t", "'", "s">>)},
     now : [weekday : {0, 1, 4}, hour : {11}, minute : {0}]]
    \cup
    [tool : {"get_weather"},
     city : {"london"},
     http : {[kind |-> "raises", exception |-> "HTTPError"],
             [kind |-> "json", data |-> JArray],
             [kind |-> "json", data |-> EmptyDict]}]

(***************************************************************************)
(* The state machine                                                       *)
(***************************************************************************)
\* No tool has returned yet.
NoResult == [status |-> "none"]

\* After import: the globals are set and the orchestrator's first tool call,
\* any call of the input space, is pending.
Init ==
    /\ WEATHER_API_KEY \in Credentials
    /\ MOCK_CALENDAR_EVENTS = MockCalendarLiteral
    /\ pc = "called"
    /\ call \in ToolCalls
    /\ result = NoResult
    /\ httpRequests = 0
    /\ log = <<>>

\* get_weather(city) with no key configured: returns before the try block.
GetWeatherNoKey ==
    /\ pc = "called"
    /\ call.tool = "get_weather"
    /\ ~key_configured(WEATHER_API_KEY)
    /\ result' = missing_key_result
    /\ pc' = "returned"
    /\ log' = Append(log, call.tool)
    /\ UNCHANGED <<WEATHER_API_KEY, MOCK_CALENDAR_EVENTS, call, httpRequests>>

\* get_weather(city) with a key: one requests.get, then the outcome.
GetWeatherRequest ==
    /\ pc = "called"
    /\ call.tool = "get_weather"
    /\ key_configured(WEATHER_API_KEY)
    /\ httpRequests' = httpRequests + 1
    /\ result' = weather_request_result(call.city, call.http)
    /\ pc' = "returned"
    /\ log' = Append(log, call.tool)
    /\ UNCHANGED <<WEATHER_API_KEY, MOCK_CALENDAR_EVENTS, call>>

\* get_calendar_info(query)
GetCalendarInfo ==
    /\ pc = "called"
    /\ call.tool = "get_calendar_info"
    /\ result' = get_calendar_info(call.query, call.now, MOCK_CALENDAR_EVENTS)
    /\ MOCK_CALENDAR_EVENTS' =
           IF call.query.type = "str"
           THEN calendar_after_query(MOCK_CALENDAR_EVENTS, str_lower(call.query.value),
                                     strftime_A(call.now))
           ELSE MOCK_CALENDAR_EVENTS
    /\ pc' = "returned"
    /\ log' = Append(log, call.tool)
    /\ UNCHANGED <<WEATHER_API_KEY, call, httpRequests>>

\* The orchestrator takes the result and selects the next tool call.
Invoke ==
    /\ pc = "returned"
    /\ Len(log) < MaxCalls
    /\ call' \in FollowUpCalls
    /\ pc' = "called"
    /\ result' = NoResult
    /\ UNCHANGED <<WEATHER_API_KEY, MOCK_CALENDAR_EVENTS, httpRequests, log>>

Next ==
    \/ GetWeatherNoKey
    \/ GetWeatherRequest
    \/ GetCalendarInfo
    \/ Invoke

Spec == Init /\ [][Next]_vars

(***************************************************************************)
(* Vocabulary of the properties                                            *)
(***************************************************************************)
\* The last call was to `tool` and has returned.
Returned(tool) == pc = "returned" /\ call.tool = tool

\* get_calendar_info has returned from a call with a str query.
AnsweredQuery == Returned("get_calendar_info") /\ call.query.type = "str"

\* The query of the last call, lower-cased, and the clock it read.
Asked == str_lower(call.query.value)
Today == WeekdayNames[call.now.weekday + 1]
TimeNow == strftime_HM(call.now)

SaysToday == str_in(<<"t", "o", "d", "a", "y">>, Asked)
SaysWeekday == str_in(str_lower(Today), Asked)
SaysNext == str_in(<<"n", "e", "x", "t">>, Asked)

\* The events of the dataset whose lower-cased title the query contains.
TitledEvents == SelectSeq(MockCalendarLiteral, LAMBDA e : str_in(str_lower(e.title), Asked))

\* The events of the dataset on a weekday, in dataset order.
EventsOn(day) == SelectSeq(MockCalendarLiteral, LAMBDA e : e.day = day)

\* The "next" rule is the one that ran.
NextRuleRan == AnsweredQuery /\ SaysNext /\ ~SaysToday /\ ~SaysWeekday

\* The keys a success mapping carries for each tool, and all payload keys.
PayloadOf(tool) ==
    IF tool = "get_weather" THEN {"report", "data"} ELSE {"events", "message"}
PayloadKeys == {"report", "data", "events", "message", "formatted_events"}

(***************************************************************************)
(* C1.  Every mapping a tool returns is either a success with its payload  *)
(* keys and no error_message, or an error with an error_message and no     *)
(* payload key; never both, never neither.                                 *)
(***************************************************************************)
C1_Envelope ==
    pc = "returned" =>
        \/ /\ result.status = "success"
           /\ PayloadOf(call.tool) \subseteq DOMAIN result
           /\ "error_message" \notin DOMAIN result
        \/ /\ result.status = "error"
           /\ "error_message" \in DOMAIN result
           /\ DOMAIN result \cap PayloadKeys = {}

\* get_weather returned the missing-key mapping, an error side of the envelope.
C1_Witness ==
    /\ Returned("get_weather")
    /\ WEATHER_API_KEY = PyNone
    /\ result.status = "error"

(***************************************************************************)
(* C2.  As claimed: a query that contains an event title returns exactly   *)
(* that one event, whatever else the query contains.                       *)
(***************************************************************************)
C2_TitleAlwaysWins ==
    (AnsweredQuery /\ TitledEvents # <<>>) =>
        /\ Len(result.events) = 1
        /\ \E i \in 1..Len(TitledEvents) : result.events = <<TitledEvents[i]>>

(***************************************************************************)
(* C2 as amended.  A query that contains an event title and none of        *)
(* "today", the current weekday's name and "next" returns exactly one      *)
(* event: the first event of the dataset whose title the query contains.   *)
(***************************************************************************)
C2_TitleRule ==
    (AnsweredQuery /\ TitledEvents # <<>> /\ ~SaysToday /\ ~SaysWeekday /\ ~SaysNext) =>
        /\ result.status = "success"
        /\ result.events = <<TitledEvents[1]>>
        /\ result.message = <<"Here's the information about ", TitledEvents[1].title, ":">>

\* A query naming two titles, the later one of the dataset first.
C2_Witness ==
    /\ AnsweredQuery /\ ~SaysToday /\ ~SaysWeekday /\ ~SaysNext
    /\ Len(TitledEvents) = 2
    /\ call.query.value[1] = "R"
    /\ result.events = <<Event1>>

(***************************************************************************)
(* C3.  As claimed: a query that contains "next" returns at most one event.*)
(***************************************************************************)
C3_NextAtMostOne ==
    (AnsweredQuery /\ SaysNext) => Len(result.events) <= 1

(***************************************************************************)
(* C3 as amended.  A query that contains "next" and neither "today" nor    *)
(* the current weekday's name returns at most one event.                   *)
(***************************************************************************)
C3_NextRuleAtMostOne ==
    NextRuleRan => Len(result.events) <= 1

\* The "next" rule ran on a Monday morning, when several events qualify.
C3_Witness ==
    /\ NextRuleRan
    /\ call.now.weekday = 0 /\ call.now.hour = 8
    /\ Len(result.events) = 1

(***************************************************************************)
(* C4.  get_weather called while the credential is unset or empty returns  *)
(* an error with an error_message, and no HTTP request is issued.          *)
(***************************************************************************)
KeyAbsent == WEATHER_API_KEY = PyNone \/ WEATHER_API_KEY = PyStr(<<>>)

C4_NoKeyNoRequest ==
    (Returned("get_weather") /\ KeyAbsent) =>
        /\ result.status = "error"
        /\ "error_message" \in DOMAIN result
        /\ httpRequests = 0

\* get_weather returned with the key set to the empty string.
C4_Witness ==
    /\ Returned("get_weather")
    /\ WEATHER_API_KEY = PyStr(<<>>)
    /\ result.status = "error"
    /\ httpRequests = 0

(***************************************************************************)
(* C5.  In the "next" rule the selected event is the first event on the    *)
(* current weekday that starts later than the current time, otherwise the  *)
(* first event on a later weekday; when there is neither, the result       *)
(* reports no upcoming events.  ("First" is taken in the order of the      *)
(* rule's sorted list, "later weekday" in the order Monday to Sunday.)     *)
(***************************************************************************)
WeekdayOf(day) == (CHOOSE i \in 1..Len(WeekdayNames) : WeekdayNames[i] = day) - 1

LaterToday ==
    SelectSeq(sorted(MockCalendarLiteral),
              LAMBDA e : e.day = Today /\ str_gt(e.start_time, TimeNow))

OnLaterDays ==
    SelectSeq(sorted(MockCalendarLiteral),
              LAMBDA e : WeekdayOf(e.day) > call.now.weekday)

C5_NextIsTodayFirst ==
    NextRuleRan =>
        IF LaterToday # <<>>
        THEN result.events = <<LaterToday[1]>>
        ELSE IF OnLaterDays # <<>>
        THEN result.events = <<OnLaterDays[1]>>
        ELSE result.events = <<>> /\ result.message = <<"You have no upcoming events.">>

(***************************************************************************)
(* C6.  As claimed: in a successful weather result each of the six report  *)
(* fields shows the response's value when the response has the field and   *)
(* the literal "unknown" when it has not.                                  *)
(***************************************************************************)
\* The members of a section of the response body; none when it is absent.
SectionOf(object, key) ==
    IF key \in DOMAIN object THEN object[key].members ELSE <<>>

ResponseLocation == SectionOf(result.data.members, "location")
ResponseCurrent == SectionOf(result.data.members, "current")
ResponseCondition == SectionOf(ResponseCurrent, "condition")

\* A field as the report shows it: the value's text, or `missing` when absent.
Shown(section, field, missing) ==
    IF field \in DOMAIN section THEN py_format(section[field]) ELSE missing

WeatherSucceeded == Returned("get_weather") /\ result.status = "success"

\* The five fields of the report other than the location name.
ReadingsShown ==
    /\ result.report[4] = Shown(ResponseCondition, "text", "unknown")
    /\ result.report[6] = Shown(ResponseCurrent, "temp_c", "unknown")
    /\ result.report[8] = Shown(ResponseCurrent, "temp_f", "unknown")
    /\ result.report[10] = Shown(ResponseCurrent, "humidity", "unknown")
    /\ result.report[12] = Shown(ResponseCurrent, "wind_kph", "unknown")

C7_TodayRule ==
    (AnsweredQuery /\ (SaysToday \/ SaysWeekday)) =>
        /\ result.status = "success"
        /\ result.events = EventsOn(Today)
        /\ (result.events = <<>>) <=> (call.now.weekday \in {1, 3, 6})
        /\ (result.events = <<>>) =>
              /\ "formatted_events" \notin DOMAIN result
              /\ result.message = <<"You have no events scheduled for ", Today, ".">>
        /\ (result.events # <<>>) =>
              /\ Len(result.formatted_events) = Len(result.events)
              /\ result.message = <<"Here are your events for ", Today, ":">>

\* "today" asked on a Tuesday, a weekday without events.
C7_Witness ==
    /\ AnsweredQuery /\ SaysToday
    /\ call.now.weekday = 1
    /\ result.events = <<>>
    /\ "formatted_events" \notin DOMAIN result

(***************************************************************************)
(* C8.  As claimed: a query that contains none of "today", "next" and the  *)
(* event titles returns the full list of 7 events with the fallback        *)
(* message.                                                                *)
(***************************************************************************)
FullListReturned ==
    /\ result.status = "success"
    /\ Len(result.events) = 7
    /\ result.events = MockCalendarLiteral
    /\ result.message = <<"Here are all your scheduled events:">>

C8_FallbackWithoutKeywords ==
    (AnsweredQuery /\ ~SaysToday /\ ~SaysNext /\ TitledEvents = <<>>) => FullListReturned

(***************************************************************************)
(* C8 as amended.  A query that contains none of "today", the current      *)
(* weekday's lower-cased name, "next" and the event titles returns the     *)
(* full list of 7 events with the fallback message.                        *)
(***************************************************************************)
C8_Fallback ==
    (AnsweredQuery /\ ~SaysToday /\ ~SaysWeekday /\ ~SaysNext /\ TitledEvents = <<>>) =>
        FullListReturned

\* A query naming a weekday other than the current one falls through.
C8_Witness ==
    /\ AnsweredQuery /\ ~SaysToday /\ ~SaysWeekday /\ ~SaysNext /\ TitledEvents = <<>>
    /\ str_in(<<"m", "o", "n", "d", "a", "y">>, Asked)
    /\ Len(result.events) = 7

(***************************************************************************)
(* C9.  No call changes the static event list or the weather credential,   *)
(* and what get_calendar_info returns is what it returns for that query    *)
(* and clock on the list as written in the source, whatever calls came     *)
(* before.                                                                 *)
(***************************************************************************)
C9_Frame ==
    /\ [][/\ MOCK_CALENDAR_EVENTS' = MOCK_CALENDAR_EVENTS
          /\ WEATHER_API_KEY' = WEATHER_API_KEY]_vars
    /\ [](Returned("get_calendar_info") =>
            result = get_calendar_info(call.query, call.now, MockCalendarLiteral))

\* A third call, to get_calendar_info, after both tools have been called.
C9_Witness ==
    /\ Returned("get_calendar_info")
    /\ Len(log) = 3
    /\ log[1] = "get_calendar_info" /\ log[2] = "get_weather"
    /\ result.status = "success"
    /\ Len(result.events) = 7

(***************************************************************************)
(* C10.  Whenever the "next" rule runs on the fixed dataset it returns     *)
(* exactly one event with the message "Your next event is:"; it never      *)
(* reports that there are no upcoming events.                              *)
(***************************************************************************)
C10_NextRuleFindsOne ==
    NextRuleRan =>
        /\ Len(result.events) = 1
        /\ result.message = <<"Your next event is:">>
        /\ result.message # <<"You have no upcoming events.">>

\* Friday at 11:00, when Friday's only event no longer starts later.
C10_Witness ==
    /\ NextRuleRan
    /\ call.now.weekday = 4 /\ call.now.hour = 11 /\ call.now.minute = 0
    /\ result.events = <<Event1>>

====
